---- MODULE Spec2Model ----
(***************************************************************************)
(* Model of extract_highlights.py (seemless/tcannex): the containment      *)
(* resolver (_check_contain, _extract_annot), the colour classifier        *)
(* (normalize_color, map_color_to_type), the quality filter                *)
(* (is_quality_text, extract_text_from_rect) and the document scanner      *)
(* (extract_pdf_highlights).                                               *)
(*                                                                         *)
(* Units.  Coordinates are integers (PDF points), so areas are exact.      *)
(* Colour channels are integers in hundredths (0..100): the value a        *)
(* channel has after round(c, 2).  Text is a sequence of one-character     *)
(* strings, so joining, trimming and searching are computed, not assumed.  *)
(***************************************************************************)
EXTENDS Integers, Sequences, FiniteSets, TLC

VARIABLES
    \* _check_contain call
    r_word, points, contain, contain_pc,
    \* map_color_to_type call
    color, annotation_type, color_pc,
    \* _extract_annot call
    annot, words_on_page, sentence, annot_pc,
    \* extract_pdf_highlights call
    pc, doc, n_pages, page_num, all_highlights, outcome, result, log,
    close_count, pages_loaded, annots_seen, clip_text, highlighted_text

containVars == <<r_word, points, contain, contain_pc>>
colorVars == <<color, annotation_type, color_pc>>
annotVars == <<annot, words_on_page, sentence, annot_pc>>
scanVars == <<pc, doc, n_pages, page_num, all_highlights, outcome, result, log,
              close_count, pages_loaded, annots_seen, clip_text, highlighted_text>>
vars == <<containVars, colorVars, annotVars, scanVars>>

\* ------------------------------------------------------------------ bounds

\* Largest coordinate of the dense part of the grid the rectangles are drawn from.
MaxCoord == 5
\* Largest y coordinate of a rectangle given to _check_contain.
MaxY == 1
\* Most words in the word list given to _extract_annot.
MaxWords == 3
\* Most quads in the vertex list given to _extract_annot.
MaxQuads == 2
\* Most pages of a document.
MaxPages == 2
\* Most annotations the PDF layer delivers during one scan.
MaxAnnots == 2

\* ------------------------------------------------------------- arithmetic

Min2(a, b) == IF a <= b THEN a ELSE b
Max2(a, b) == IF a >= b THEN a ELSE b
Abs(a) == IF a >= 0 THEN a ELSE -a

\* ----------------------------------------------------------- fitz geometry
\* A rectangle is <<x0, y0, x1, y1>>, a point <<x, y>>, a quad a sequence of
\* four points (ul, ur, ll, lr).

\* fitz.Quad(points).rect: the smallest rectangle containing the four points.
QuadRect(pts) ==
    << Min2(Min2(pts[1][1], pts[2][1]), Min2(pts[3][1], pts[4][1])),
       Min2(Min2(pts[1][2], pts[2][2]), Min2(pts[3][2], pts[4][2])),
       Max2(Max2(pts[1][1], pts[2][1]), Max2(pts[3][1], pts[4][1])),
       Max2(Max2(pts[1][2], pts[2][2]), Max2(pts[3][2], pts[4][2])) >>

\* Rect.is_empty
IsEmpty(r) == r[1] >= r[3] \/ r[2] >= r[4]

\* r.intersect(w): an empty argument replaces r, an empty r stays, otherwise
\* the coordinates are clamped (the result is invalid, x1 < x0 or y1 < y0, when
\* the rectangles are disjoint).
Intersect(r, w) ==
    IF IsEmpty(w) THEN w
    ELSE IF IsEmpty(r) THEN r
    ELSE << Max2(r[1], w[1]), Max2(r[2], w[2]), Min2(r[3], w[3]), Min2(r[4], w[4]) >>

\* Rect.width, Rect.height: never negative.
Width(r) == Max2(0, r[3] - r[1])
Height(r) == Max2(0, r[4] - r[2])
\* Rect.get_area()
GetArea(r) == Width(r) * Height(r)

\* _threshold_intersection = 0.6, as the fraction ThresholdNum / ThresholdDen.
ThresholdNum == 6
ThresholdDen == 10

\* A mutant of _check_contain: the comparison is strict.
CheckContainStrict(w, pts) ==
    LET r == Intersect(QuadRect(pts), w)
    IN  GetArea(r) * ThresholdDen > GetArea(w) * ThresholdNum

\* _check_contain(r_word, points)
CheckContain(w, pts) ==
    LET r == Intersect(QuadRect(pts), w)
    IN  GetArea(r) * ThresholdDen >= GetArea(w) * ThresholdNum

\* ---------------------------------------------------------------- colours

\* A mutant of COLOR_MAPPINGS: the green channel of the first Err entry is
\* mistyped (0.58 for 0.38), which brings it within tolerance of the FYI entries.
ColorMappingsMistyped ==
    << << <<100, 76, 0>>,  "FYI" >>,
       << <<77, 98, 45>>,  "Def" >>,
       << <<22, 90, 100>>, "Rec" >>,
       << <<100, 58, 0>>,  "Err" >>,
       << <<86, 67, 100>>, "Ref" >>,
       << <<100, 75, 0>>,  "FYI" >>,
       << <<100, 77, 0>>,  "FYI" >>,
       << <<97, 39, 39>>,  "Err" >>,
       << <<76, 98, 45>>,  "Def" >>,
       << <<78, 98, 45>>,  "Def" >>,
       << <<21, 90, 100>>, "Rec" >>,
       << <<23, 90, 100>>, "Rec" >>,
       << <<96, 39, 39>>,  "Err" >>,
       << <<98, 39, 39>>,  "Err" >>,
       << <<85, 67, 100>>, "Ref" >>,
       << <<87, 67, 100>>, "Ref" >> >>

\* COLOR_MAPPINGS, in the dict's insertion order (the order .items() iterates).
COLOR_MAPPINGS ==
    << << <<100, 76, 0>>,  "FYI" >>,
       << <<77, 98, 45>>,  "Def" >>,
       << <<22, 90, 100>>, "Rec" >>,
       << <<100, 38, 0>>,  "Err" >>,
       << <<86, 67, 100>>, "Ref" >>,
       << <<100, 75, 0>>,  "FYI" >>,
       << <<100, 77, 0>>,  "FYI" >>,
       << <<97, 39, 39>>,  "Err" >>,
       << <<76, 98, 45>>,  "Def" >>,
       << <<78, 98, 45>>,  "Def" >>,
       << <<21, 90, 100>>, "Rec" >>,
       << <<23, 90, 100>>, "Rec" >>,
       << <<96, 39, 39>>,  "Err" >>,
       << <<98, 39, 39>>,  "Err" >>,
       << <<85, 67, 100>>, "Ref" >>,
       << <<87, 67, 100>>, "Ref" >> >>

\* normalize_color(color).  None and the empty tuple are both <<>> ("not color").
normalize_color(c) ==
    IF c = <<>> THEN <<0, 0, 0>>
    ELSE IF Len(c) >= 3 THEN <<c[1], c[2], c[3]>>
    ELSE IF Len(c) = 1 THEN <<c[1], c[1], c[1]>>
    ELSE <<0, 0, 0>>

\* The channel values a (in hundredths) for which the double-precision
\* comparison abs(a/100 - (a+15)/100) <= 0.15 is true.  For every other pair
\* 15 hundredths apart the computed difference is 0.15000000000000002 and the
\* comparison is false; the difference is symmetric in its operands.
ToleranceExact ==
    {0, 1, 3, 4, 6, 7, 9, 10, 14, 15, 16, 17, 20, 21, 22, 23, 26, 27, 28, 32,
     33, 34, 42, 43, 44, 45, 46, 54, 55, 56, 67, 68, 79, 80, 81}

\* tolerance = 0.15, in hundredths.
Tolerance == 15

\* abs(c1 - c2) <= tolerance, on doubles.
ChannelClose(c1, c2) ==
    \/ Abs(c1 - c2) < Tolerance
    \/ Abs(c1 - c2) = Tolerance /\ Min2(c1, c2) \in ToleranceExact

\* all(abs(c1 - c2) <= tolerance for c1, c2 in zip(normalized_color, mapped_color))
AllClose(n, m) == \A k \in 1..3 : ChannelClose(n[k], m[k])

\* The fuzzy scan: the category of the first entry of the table, from index i
\* on, that is within tolerance; "None" when there is none.
RECURSIVE FuzzyFrom(_, _, _)
FuzzyFrom(table, n, i) ==
    IF i > Len(table) THEN "None"
    ELSE IF AllClose(n, table[i][1]) THEN table[i][2]
    ELSE FuzzyFrom(table, n, i + 1)

\* map_color_to_type(color)
map_color_to_type(c) ==
    LET n == normalize_color(c)
        exact == {i \in 1..Len(COLOR_MAPPINGS) : COLOR_MAPPINGS[i][1] = n}
    IN  IF exact # {} THEN COLOR_MAPPINGS[CHOOSE i \in exact : TRUE][2]
        ELSE FuzzyFrom(COLOR_MAPPINGS, n, 1)

\* ------------------------------------------------------------------- text

UPPER == << "A", "B", "C", "D", "E", "F", "G", "H", "I", "J", "K", "L", "M",
            "N", "O", "P", "Q", "R", "S", "T", "U", "V", "W", "X", "Y", "Z" >>
LOWER == << "a", "b", "c", "d", "e", "f", "g", "h", "i", "j", "k", "l", "m",
            "n", "o", "p", "q", "r", "s", "t", "u", "v", "w", "x", "y", "z" >>
DIGITS == {"0", "1", "2", "3", "4", "5", "6", "7", "8", "9"}
WHITESPACE == {" ", "\t", "\n"}

\* c.isalpha()
IsAlpha(c) == \E i \in 1..Len(UPPER) : c = UPPER[i] \/ c = LOWER[i]

\* One character of str.lower()
LowerChar(c) ==
    IF \E i \in 1..Len(UPPER) : c = UPPER[i]
    THEN LOWER[CHOOSE i \in 1..Len(UPPER) : c = UPPER[i]]
    ELSE c

\* str.lower()
Lower(s) == [i \in 1..Len(s) |-> LowerChar(s[i])]

\* str.strip()
RECURSIVE LStrip(_)
LStrip(s) == IF s # <<>> /\ Head(s) \in WHITESPACE THEN LStrip(Tail(s)) ELSE s
RECURSIVE RStrip(_)
RStrip(s) ==
    IF s # <<>> /\ s[Len(s)] \in WHITESPACE THEN RStrip(SubSeq(s, 1, Len(s) - 1)) ELSE s
Strip(s) == RStrip(LStrip(s))

\* str.isdigit(): non-empty and every character a digit
IsDigit(s) == s # <<>> /\ \A i \in 1..Len(s) : s[i] \in DIGITS

\* pat in s
Contains(s, pat) ==
    \E i \in 1..(Len(s) - Len(pat) + 1) : SubSeq(s, i, i + Len(pat) - 1) = pat

\* sep.join(parts)
RECURSIVE Join(_, _)
Join(parts, sep) ==
    IF parts = <<>> THEN <<>>
    ELSE IF Len(parts) = 1 THEN parts[1]
    ELSE parts[1] \o sep \o Join(Tail(parts), sep)

\* re.sub(class+, ' ', s): every maximal run of characters of the class becomes
\* one space.
RECURSIVE SubRuns(_, _)
SubRuns(s, class) ==
    IF s = <<>> THEN <<>>
    ELSE IF Head(s) \in class
         THEN IF Len(s) >= 2 /\ s[2] \in class
              THEN SubRuns(Tail(s), class)
              ELSE <<" ">> \o SubRuns(Tail(s), class)
         ELSE <<Head(s)>> \o SubRuns(Tail(s), class)

\* -------------------------------------------------------- quality filter

url_indicators ==
    { <<"h", "t", "t", "p">>, <<"w", "w", "w", ".">>, <<".", "c", "o", "m">>,
      <<".", "o", "r", "g">>, <<".", "g", "o", "v">>, <<".", "e", "d", "u">>,
      <<"d", "o", "i", ".", "o", "r", "g">> }

artifacts ==
    { <<"p", "a", "g", "e">>, <<"f", "i", "g", "u", "r", "e">>,
      <<"t", "a", "b", "l", "e">>, <<"a", "p", "p", "e", "n", "d", "i", "x">>,
      <<"s", "e", "c", "t", "i", "o", "n">> }

\* letters = sum(1 for c in text if c.isalpha())
Letters(s) == Cardinality({i \in 1..Len(s) : IsAlpha(s[i])})

\* is_quality_text(text).  letters / len(text) < 0.3 is 10 * letters < 3 * len.
is_quality_text(text) ==
    /\ text # <<>>
    /\ Len(Strip(text)) >= 2
    /\ \A ind \in url_indicators : ~Contains(Lower(Strip(text)), ind)
    /\ Lower(Strip(text)) \notin artifacts
    /\ ~IsDigit(Strip(text))
    /\ Len(Strip(text)) >= 3
    /\ ~(Len(text) > 0 /\ 10 * Letters(text) < 3 * Len(text))

\* The clean-up of extract_text_from_rect: spaces and tabs, then newlines,
\* collapsed; then trimmed.
CleanText(clip) == Strip(SubRuns(SubRuns(clip, {" ", "\t"}), {"\n"}))

\* --------------------------------------------------------------- resolver
\* A word is <<x0, y0, x1, y1, text>>.  An annotation's vertices are a sequence
\* of points, or None (has_vertices = FALSE).

\* words = [w for w in words_on_page if _check_contain(fitz.Rect(w[:4]), points)]
ContainedWords(words, pts) ==
    LET Test(w) == CheckContain(SubSeq(w, 1, 4), pts)
    IN  SelectSeq(words, Test)

\* ' '.join(w[4] for w in words)
JoinWords(words) == Join([k \in 1..Len(words) |-> words[k][5]], <<" ">>)

\* A mutant of the loop of _extract_annot: the fragments are stored in reverse
\* quad order.
SentencesReversed(quad_points, words) ==
    LET quad_count == Len(quad_points) \div 4
    IN  [i \in 1..quad_count |->
            JoinWords(ContainedWords(words,
                SubSeq(quad_points, (quad_count - i) * 4 + 1, (quad_count - i) * 4 + 4)))]

\* The loop of _extract_annot: sentences[i] for each quad i.
Sentences(quad_points, words) ==
    LET quad_count == Len(quad_points) \div 4
    IN  [i \in 1..quad_count |->
            JoinWords(ContainedWords(words,
                SubSeq(quad_points, (i - 1) * 4 + 1, (i - 1) * 4 + 4)))]

\* _extract_annot(annot, words_on_page): the string returned, or raised = TRUE
\* when len(annot.vertices) raises (vertices is None).
extract_annot(a, words) ==
    IF ~a.has_vertices
    THEN [raised |-> TRUE, value |-> <<>>]
    ELSE [raised |-> FALSE, value |-> Join(Sentences(a.vertices, words), <<" ">>)]


\* ===================================================== _check_contain call

\* x coordinates: a dense grid, and three wide ones (a word 100 wide covered to
\* 59 or to 60).
XCoords == (0..MaxCoord) \cup {59, 60, 100}
YCoords == 0..MaxY

\* Word rectangles, as page.get_text("words") gives them: x0 <= x1, y0 <= y1.
WordRects ==
    { r \in XCoords \X YCoords \X XCoords \X YCoords : r[1] <= r[3] /\ r[2] <= r[4] }

\* The four corners (ul, ur, ll, lr) of an upright quad over box b, and of a
\* slanted one (its upper edge shifted right by one).
UprightQuad(b) == << <<b[1], b[2]>>, <<b[3], b[2]>>, <<b[1], b[4]>>, <<b[3], b[4]>> >>
SlantedQuad(b) == << <<b[1] + 1, b[2]>>, <<b[3] + 1, b[2]>>, <<b[1], b[4]>>, <<b[3], b[4]>> >>

QuadBoxes == { r \in WordRects : r[1] < r[3] /\ r[2] < r[4] }
Quads == { UprightQuad(b) : b \in QuadBoxes } \cup { SlantedQuad(b) : b \in QuadBoxes }

ContainIdle ==
    /\ r_word = <<0, 0, 0, 0>>
    /\ points = <<>>
    /\ contain = FALSE
    /\ contain_pc = "idle"

ContainInit ==
    /\ r_word \in WordRects
    /\ points \in Quads
    /\ contain = FALSE
    /\ contain_pc = "call"

\* contain = _check_contain(r_word, points)
CheckContainCall ==
    /\ contain_pc = "call"
    /\ contain' = CheckContain(r_word, points)
    /\ contain_pc' = "done"
    /\ UNCHANGED <<r_word, points, colorVars, annotVars, scanVars>>

\* ================================================== map_color_to_type call

Channels == 0..100

\* The colours handed to map_color_to_type, besides every RGB colour at two
\* decimals: every grey level, no colour, and a few colours of two and of four
\* channels.
OtherColors ==
    { <<k>> : k \in Channels }
    \cup { <<>>, <<100, 76>>, <<22, 90>> }
    \cup { Append(COLOR_MAPPINGS[i][1], a) : i \in 1..Len(COLOR_MAPPINGS), a \in {0, 100} }

ColorIdle ==
    /\ color = <<>>
    /\ annotation_type = "None"
    /\ color_pc = "idle"

ColorInit ==
    /\ \/ \E r \in Channels, g \in Channels, b \in Channels : color = <<r, g, b>>
       \/ color \in OtherColors
    /\ annotation_type = "None"
    /\ color_pc = "call"

\* annotation_type = map_color_to_type(color)
MapColorCall ==
    /\ color_pc = "call"
    /\ annotation_type' = map_color_to_type(color)
    /\ color_pc' = "done"
    /\ UNCHANGED <<color, containVars, annotVars, scanVars>>

\* ===================================================== _extract_annot call

\* Two text lines of two words each.
WordPool ==
    { <<0, 0, 5, 1, <<"a", "b">> >>,
      <<5, 0, 10, 1, <<"c">> >>,
      <<0, 1, 5, 2, <<"4", "2">> >>,
      <<5, 1, 10, 2, <<"d">> >> }

\* The word lists: up to MaxWords words of the pool, in any order, none twice.
WordLists ==
    UNION { { ws \in [1..n -> WordPool] : \A i, j \in 1..n : i # j => ws[i] # ws[j] }
            : n \in 0..MaxWords }

\* Quads over: line 1, line 2, line 1 from x = 2 (60% of the first word), line 1
\* from x = 3 (40% of it), and a place where no word is.
QuadPool ==
    { UprightQuad(<<0, 0, 10, 1>>), UprightQuad(<<0, 1, 10, 2>>),
      UprightQuad(<<2, 0, 10, 1>>), UprightQuad(<<3, 0, 10, 1>>),
      UprightQuad(<<20, 5, 30, 6>>) }

RECURSIVE Flatten(_)
Flatten(ss) == IF ss = <<>> THEN <<>> ELSE Head(ss) \o Flatten(Tail(ss))

\* The vertex lists: up to MaxQuads quads, whole, or followed by two stray points.
VertexLists ==
    LET whole == UNION { { Flatten(qs) : qs \in [1..n -> QuadPool] } : n \in 0..MaxQuads }
    IN  whole \cup { v \o << <<0, 0>>, <<10, 0>> >> : v \in whole }

\* An annotation: subtype, colours, rectangle and vertices, each of which the
\* PDF layer may fail to deliver.
Annot(type, colors_ok, stroke, fill, rect_ok, rect, has_vertices, verts) ==
    [ type |-> type, colors_ok |-> colors_ok, stroke |-> stroke, fill |-> fill,
      rect_ok |-> rect_ok, rect |-> rect, has_vertices |-> has_vertices,
      vertices |-> verts ]

NoAnnot == Annot("Other", TRUE, <<>>, <<>>, TRUE, <<0, 0, 0, 0>>, FALSE, <<>>)

ResolverAnnots ==
    { Annot("Highlight", TRUE, <<>>, <<>>, TRUE, <<0, 0, 10, 2>>, TRUE, v) : v \in VertexLists }
    \cup { Annot("Highlight", TRUE, <<>>, <<>>, TRUE, <<0, 0, 10, 2>>, FALSE, <<>>) }

AnnotIdle ==
    /\ annot = NoAnnot
    /\ words_on_page = <<>>
    /\ sentence = <<>>
    /\ annot_pc = "idle"

AnnotInit ==
    /\ annot \in ResolverAnnots
    /\ words_on_page \in WordLists
    /\ sentence = <<>>
    /\ annot_pc = "call"

\* sentence = _extract_annot(annot, words_on_page)
ExtractAnnotCall ==
    /\ annot_pc = "call"
    /\ LET r == extract_annot(annot, words_on_page)
       IN  /\ sentence' = r.value
           /\ annot_pc' = IF r.raised THEN "raised" ELSE "done"
    /\ UNCHANGED <<annot, words_on_page, containVars, colorVars, scanVars>>

\* ============================================ extract_pdf_highlights call

\* What page.get_text("words", clip=rect) may return.
T_shall == <<"s", "h", "a", "l", "l">>
T_use == <<"u", "s", "e">>
T_a == <<"a">>
T_salt == <<"s", "a", "l", "t">>
T_42 == <<"4", "2">>
T_ab == <<"a", "b">>
T_pi == <<"3", ".", "1", "4">>
T_Section == <<"S", "e", "c", "t", "i", "o", "n">>
T_doi == <<"d", "o", "i", ".", "o", "r", "g">>

ScanWordLists ==
    { << <<0, 0, 5, 1, T_shall>>, <<5, 0, 8, 1, T_use>>, <<8, 0, 9, 1, T_a>>,
         <<9, 0, 13, 1, T_salt>> >>,
      << <<0, 0, 5, 1, T_42>>, <<0, 1, 5, 2, T_ab>> >>,
      << <<0, 0, 5, 1, T_pi>>, <<0, 1, 5, 2, T_doi>> >>,
      << <<0, 0, 5, 1, T_Section>> >>,
      << >> }

Line1 == UprightQuad(<<0, 0, 13, 1>>)
Line2 == UprightQuad(<<0, 1, 13, 2>>)
Nowhere == UprightQuad(<<20, 5, 30, 6>>)
Gold == <<100, 76, 0>>
Blue == <<22, 90, 100>>

\* The annotations page.annots() may deliver: highlights with a stroke colour, a
\* fill colour only, or no colour; over one quad, three quads (the middle one
\* over no text) or two quads over no text; without vertices; another subtype;
\* and ones whose subtype, colours or rectangle cannot be read.
ScanAnnots ==
    { Annot("Highlight", TRUE, Gold, <<>>, TRUE, <<0, 0, 13, 1>>, TRUE, Line1),
      Annot("Highlight", TRUE, <<>>, Blue, TRUE, <<0, 0, 30, 6>>, TRUE,
            Line1 \o Nowhere \o Line2),
      Annot("Highlight", TRUE, <<>>, <<>>, TRUE, <<0, 0, 13, 1>>, TRUE, Line1),
      Annot("Highlight", TRUE, Gold, <<>>, TRUE, <<20, 5, 30, 6>>, TRUE,
            Nowhere \o Nowhere),
      Annot("Highlight", TRUE, Gold, <<>>, TRUE, <<0, 0, 13, 1>>, FALSE, <<>>),
      Annot("Other", TRUE, Gold, <<>>, TRUE, <<0, 0, 13, 1>>, TRUE, Line1),
      Annot("raise", TRUE, Gold, <<>>, TRUE, <<0, 0, 13, 1>>, TRUE, Line1),
      Annot("Highlight", FALSE, <<>>, <<>>, TRUE, <<0, 0, 13, 1>>, TRUE, Line1),
      Annot("Highlight", TRUE, Gold, <<>>, FALSE, <<0, 0, 0, 0>>, TRUE, Line1) }

ScanInit ==
    /\ pc = "start"
    /\ doc = "none"
    /\ n_pages = 0
    /\ page_num = 0
    /\ all_highlights = <<>>
    /\ outcome = "running"
    /\ result = <<>>
    /\ log = <<>>
    /\ close_count = 0
    /\ pages_loaded = 0
    /\ annots_seen = 0
    /\ clip_text = <<>>
    /\ highlighted_text = <<>>

ScanIdle ==
    /\ pc = "idle"
    /\ doc = "none"
    /\ n_pages = 0
    /\ page_num = 0
    /\ all_highlights = <<>>
    /\ outcome = "running"
    /\ result = <<>>
    /\ log = <<>>
    /\ close_count = 0
    /\ pages_loaded = 0
    /\ annots_seen = 0
    /\ clip_text = <<>>
    /\ highlighted_text = <<>>

pureVars == <<containVars, colorVars, sentence, annot_pc>>

\* A mutant of OpenFails: the exception is raised again.
OpenFailsReraised ==
    /\ pc = "start"
    /\ log' = Append(log, <<"open", 0>>)
    /\ outcome' = "raised"
    /\ pc' = "done"
    /\ UNCHANGED <<doc, n_pages, page_num, all_highlights, result, close_count,
                   pages_loaded, annots_seen, clip_text, highlighted_text,
                   annot, words_on_page, pureVars>>

\* fitz.open(pdf_path) raises: the error is printed and [] is returned.
OpenFails ==
    /\ pc = "start"
    /\ log' = Append(log, <<"open", 0>>)
    /\ result' = <<>>
    /\ outcome' = "returned"
    /\ pc' = "done"
    /\ UNCHANGED <<doc, n_pages, page_num, all_highlights, close_count,
                   pages_loaded, annots_seen, clip_text, highlighted_text,
                   annot, words_on_page, pureVars>>

\* fitz.open(pdf_path) succeeds; all_highlights = []; range(len(doc)) is built.
Open ==
    /\ pc = "start"
    /\ doc' = "open"
    /\ \E n \in 0..MaxPages : n_pages' = n
    /\ page_num' = 0
    /\ all_highlights' = <<>>
    /\ pc' = "loop"
    /\ UNCHANGED <<outcome, result, log, close_count, pages_loaded, annots_seen,
                   clip_text, highlighted_text, annot, words_on_page, pureVars>>

\* A mutant of Finally: the handle is not closed.
FinallyForgotten == UNCHANGED <<doc, close_count>>

\* finally: doc.close()
Finally ==
    /\ doc' = "closed"
    /\ close_count' = close_count + 1

\* The loop over the pages is exhausted: finally, then return all_highlights.
Finish ==
    /\ pc = "loop"
    /\ page_num = n_pages
    /\ Finally
    /\ result' = all_highlights
    /\ outcome' = "returned"
    /\ pc' = "done"
    /\ UNCHANGED <<n_pages, page_num, all_highlights, log, pages_loaded, annots_seen,
                   clip_text, highlighted_text, annot, words_on_page, pureVars>>

\* page = doc[page_num] raises, outside the inner try: finally, then the
\* exception leaves extract_pdf_highlights.
LoadPageFails ==
    /\ pc = "loop"
    /\ page_num < n_pages
    /\ Finally
    /\ outcome' = "raised"
    /\ pc' = "done"
    /\ UNCHANGED <<n_pages, page_num, all_highlights, result, log, pages_loaded,
                   annots_seen, clip_text, highlighted_text, annot, words_on_page,
                   pureVars>>

\* A mutant of PageHandler: the scan stops at the failing page (break).
PageHandlerBreaks ==
    /\ log' = Append(log, <<"page", page_num + 1>>)
    /\ page_num' = n_pages
    /\ pc' = "loop"
    /\ UNCHANGED <<all_highlights>>

\* except Exception as e: print("Error processing page ..."); continue
PageHandler ==
    /\ log' = Append(log, <<"page", page_num + 1>>)
    /\ page_num' = page_num + 1
    /\ pc' = "loop"
    /\ UNCHANGED <<all_highlights>>

\* page = doc[page_num]; annotations = page.annots()
LoadPage ==
    /\ pc = "loop"
    /\ page_num < n_pages
    /\ pages_loaded' = pages_loaded + 1
    /\ pc' = "annots"
    /\ UNCHANGED <<doc, n_pages, page_num, all_highlights, outcome, result, log,
                   close_count, annots_seen, clip_text, highlighted_text,
                   annot, words_on_page, pureVars>>

\* page = doc[page_num]; page.annots() raises, inside the inner try.
ListAnnotsFails ==
    /\ pc = "loop"
    /\ page_num < n_pages
    /\ pages_loaded' = pages_loaded + 1
    /\ PageHandler
    /\ UNCHANGED <<doc, n_pages, outcome, result, close_count, annots_seen,
                   clip_text, highlighted_text, annot, words_on_page, pureVars>>

\* for annot in annotations: the next annotation
NextAnnot ==
    /\ pc = "annots"
    /\ annots_seen < MaxAnnots
    /\ \E a \in ScanAnnots : annot' = a
    /\ annots_seen' = annots_seen + 1
    /\ pc' = "body"
    /\ UNCHANGED <<doc, n_pages, page_num, all_highlights, outcome, result, log,
                   close_count, pages_loaded, clip_text, highlighted_text,
                   words_on_page, pureVars>>

\* for annot in annotations: the iterator raises, inside the inner try.
AnnotIterFails ==
    /\ pc = "annots"
    /\ PageHandler
    /\ UNCHANGED <<doc, n_pages, outcome, result, close_count, pages_loaded,
                   annots_seen, clip_text, highlighted_text, annot, words_on_page,
                   pureVars>>

\* for annot in annotations: no annotation is left; the next page
EndAnnots ==
    /\ pc = "annots"
    /\ page_num' = page_num + 1
    /\ pc' = "loop"
    /\ UNCHANGED <<doc, n_pages, all_highlights, outcome, result, log, close_count,
                   pages_loaded, annots_seen, clip_text, highlighted_text,
                   annot, words_on_page, pureVars>>

\* if annot.type[0] == pymupdf.PDF_ANNOT_HIGHLIGHT: false
SkipAnnot ==
    /\ pc = "body"
    /\ annot.type = "Other"
    /\ pc' = "annots"
    /\ UNCHANGED <<doc, n_pages, page_num, all_highlights, outcome, result, log,
                   close_count, pages_loaded, annots_seen, clip_text,
                   highlighted_text, annot, words_on_page, pureVars>>

\* annot.type, annot.colors or annot.rect raises, inside the inner try.
AnnotFails ==
    /\ pc = "body"
    /\ \/ annot.type = "raise"
       \/ annot.type = "Highlight" /\ ~annot.colors_ok
       \/ annot.type = "Highlight" /\ annot.colors_ok /\ ~annot.rect_ok
    /\ PageHandler
    /\ UNCHANGED <<doc, n_pages, outcome, result, close_count, pages_loaded,
                   annots_seen, clip_text, highlighted_text, annot, words_on_page,
                   pureVars>>

\* color = annot.colors.get("stroke") or annot.colors.get("fill")
StrokeOrFill(a) == IF a.stroke # <<>> THEN a.stroke ELSE a.fill

\* highlight_data
HighlightRecord(a, text, page) ==
    [ page |-> page + 1,
      text |-> Strip(text),
      color |-> IF StrokeOrFill(a) # <<>> THEN normalize_color(StrokeOrFill(a)) ELSE <<>>,
      annotation_type |-> map_color_to_type(StrokeOrFill(a)),
      coordinates |-> a.rect,
      highlight_area |-> Width(a.rect) * Height(a.rect),
      text_length |-> Len(Strip(text)) ]

\* A mutant of extract_text_from_rect: the quality filter is not applied.
ExtractTextUnfiltered(a, word_blocks, get_text_ok) ==
    IF ~get_text_ok THEN <<>>
    ELSE LET r == extract_annot(a, word_blocks)
         IN  IF r.raised THEN <<>> ELSE CleanText(r.value)

\* extract_text_from_rect(page, annot, rect).  get_text_ok = FALSE when
\* page.get_text raises; word_blocks is what it returns otherwise.
extract_text_from_rect(a, word_blocks, get_text_ok) ==
    IF ~get_text_ok THEN <<>>
    ELSE LET r == extract_annot(a, word_blocks)
         IN  IF r.raised THEN <<>>
             ELSE IF r.value = <<>> \/ ~is_quality_text(r.value) THEN <<>>
             ELSE CleanText(r.value)

\* The body of the loop over the annotations, for a highlight whose colours and
\* rectangle can be read: the text is extracted (page.get_text may raise, and
\* returns one of the word lists otherwise) and, if any is left, a record is
\* appended.
ProcessHighlight ==
    /\ pc = "body"
    /\ annot.type = "Highlight" /\ annot.colors_ok /\ annot.rect_ok
    /\ \E word_blocks \in ScanWordLists, get_text_ok \in BOOLEAN :
         LET r == extract_annot(annot, word_blocks)
             text == extract_text_from_rect(annot, word_blocks, get_text_ok)
         IN  /\ words_on_page' = IF get_text_ok THEN word_blocks ELSE <<>>
             /\ clip_text' = IF get_text_ok /\ ~r.raised THEN r.value ELSE <<>>
             /\ highlighted_text' = text
             /\ log' = IF ~get_text_ok \/ r.raised
                       THEN Append(log, <<"rect", page_num + 1>>)
                       ELSE log
             /\ all_highlights' =
                    IF Strip(text) # <<>>
                    THEN Append(all_highlights, HighlightRecord(annot, text, page_num))
                    ELSE all_highlights
    /\ pc' = "annots"
    /\ UNCHANGED <<doc, n_pages, page_num, outcome, result, close_count,
                   pages_loaded, annots_seen, annot, pureVars>>

Next ==
    \/ OpenFails
    \/ Open
    \/ LoadPage
    \/ LoadPageFails
    \/ ListAnnotsFails
    \/ NextAnnot
    \/ AnnotIterFails
    \/ EndAnnots
    \/ SkipAnnot
    \/ AnnotFails
    \/ ProcessHighlight
    \/ Finish

\* ========================================================= specifications

InitContain == ContainInit /\ ColorIdle /\ AnnotIdle /\ ScanIdle

SpecContain == InitContain /\ [][CheckContainCall]_vars

InitColor == ContainIdle /\ ColorInit /\ AnnotIdle /\ ScanIdle

SpecColor == InitColor /\ [][MapColorCall]_vars

InitAnnot == ContainIdle /\ ColorIdle /\ AnnotInit /\ ScanIdle

SpecAnnot == InitAnnot /\ [][ExtractAnnotCall]_vars

Init == ContainIdle /\ ColorIdle /\ AnnotIdle /\ ScanInit

Spec == Init /\ [][Next]_vars

\* ================================================================= claims

\* ---- the geometry the claims speak of, by counting unit cells

\* The unit cells of rectangle r (none when r is empty or invalid).
Cells(r) == (r[1]..(r[3] - 1)) \X (r[2]..(r[4] - 1))

\* The unit cells of the bounding rectangle of four points.
BoundingCells(pts) ==
    LET xs == {pts[k][1] : k \in 1..4}
        ys == {pts[k][2] : k \in 1..4}
        lo(S) == CHOOSE m \in S : \A v \in S : m <= v
        hi(S) == CHOOSE m \in S : \A v \in S : m >= v
    IN  (lo(xs)..(hi(xs) - 1)) \X (lo(ys)..(hi(ys) - 1))

\* area(W intersect Q) and area(W)
OverlapArea(w, pts) == Cardinality(Cells(w) \cap BoundingCells(pts))
WordArea(w) == Cardinality(Cells(w))

\* area(W intersect Q) >= 0.6 * area(W)
Covered60(w, pts) == 10 * OverlapArea(w, pts) >= 6 * WordArea(w)

\* C1: _check_contain returns true if and only if the area of the intersection
\* of the word rectangle and the quad's bounding rectangle is at least 0.6 times
\* the word's area (inclusive: exactly 60% is contained, 59% is not).
C1_ContainIffSixtyPercent ==
    contain_pc = "done" => (contain <=> Covered60(r_word, points))

\* C1 witness: a word of positive area covered to exactly 60% is contained.
C1_Witness ==
    /\ contain_pc = "done"
    /\ WordArea(r_word) > 0
    /\ 10 * OverlapArea(r_word, points) = 6 * WordArea(r_word)
    /\ contain

\* ---- the text the claims speak of

\* The words of the list that quad k of the vertex list covers to 60%, in list order.
FragmentWords(verts, words, k) ==
    LET Test(w) == Covered60(SubSeq(w, 1, 4), SubSeq(verts, 4 * k - 3, 4 * k))
    IN  SelectSeq(words, Test)

\* Those words' texts with one space between consecutive ones.
RECURSIVE SpacedTexts(_, _)
SpacedTexts(ws, n) ==
    IF n = 0 THEN <<>>
    ELSE IF n = 1 THEN ws[1][5]
    ELSE SpacedTexts(ws, n - 1) \o <<" ">> \o ws[n][5]

Fragment(verts, words, k) ==
    SpacedTexts(FragmentWords(verts, words, k), Len(FragmentWords(verts, words, k)))

\* Fragments 1..k with one space between consecutive ones.
RECURSIVE SpacedFragments(_, _, _)
SpacedFragments(verts, words, k) ==
    IF k = 1 THEN Fragment(verts, words, 1)
    ELSE SpacedFragments(verts, words, k - 1) \o <<" ">> \o Fragment(verts, words, k)

QuadCount(a) == Len(a.vertices) \div 4

\* C2: for an annotation of K >= 1 quads the text returned by _extract_annot is
\* the K per-quad fragments in quad order with one space between consecutive
\* fragments, each fragment being the words that quad contains, in word-list
\* order, with one space between them.
C2_FragmentsInQuadOrder ==
    (annot_pc = "done" /\ QuadCount(annot) >= 1)
        => sentence = SpacedFragments(annot.vertices, words_on_page, QuadCount(annot))

\* C2 witness: two quads on two text lines, each containing a word, and the word
\* list not in reading order (the second word of line 1 before the first).
C2_Witness ==
    /\ annot_pc = "done"
    /\ QuadCount(annot) = 2
    /\ Len(words_on_page) = 3
    /\ words_on_page[1][1] > words_on_page[2][1]
    /\ Len(FragmentWords(annot.vertices, words_on_page, 1)) = 2
    /\ Len(FragmentWords(annot.vertices, words_on_page, 2)) = 1
    /\ FragmentWords(annot.vertices, words_on_page, 1)[1] = words_on_page[1]

\* No quad of the annotation contains a word of the list.
NoWordContained(a, words) ==
    \A k \in 1..QuadCount(a) : FragmentWords(a.vertices, words, k) = <<>>

\* C9 (as claimed): _extract_annot has no error outcome, and returns the empty
\* string whenever no word is contained in any quad (for every quad count) and
\* whenever the vertex list is absent, empty or not a multiple of 4 long.
C9_EmptyWhenNothingContained ==
    /\ annot_pc # "raised"
    /\ annot_pc = "done" =>
          /\ NoWordContained(annot, words_on_page) => sentence = <<>>
          /\ Len(annot.vertices) % 4 # 0 => sentence = <<>>

\* ---- the colours the claims speak of

\* Within 0.15 on every channel, in decimal arithmetic on two-decimal values.
WithinDecimalTolerance(n, m) == \A k \in 1..3 : Abs(n[k] - m[k]) <= 15

\* The legend entries equal to n, and those within decimal tolerance of n.
EqualEntries(n) == {i \in 1..Len(COLOR_MAPPINGS) : COLOR_MAPPINGS[i][1] = n}
NearEntries(n) ==
    {i \in 1..Len(COLOR_MAPPINGS) : WithinDecimalTolerance(n, COLOR_MAPPINGS[i][1])}

\* The category the claim gives colour n.
ClaimedCategory(n) ==
    IF EqualEntries(n) # {}
    THEN COLOR_MAPPINGS[CHOOSE i \in EqualEntries(n) : TRUE][2]
    ELSE IF NearEntries(n) # {}
    THEN COLOR_MAPPINGS[CHOOSE i \in NearEntries(n) : \A j \in NearEntries(n) : i <= j][2]
    ELSE "None"

\* C4 (as claimed): map_color_to_type returns the category of the legend entry
\* equal to the normalized colour, else that of the first entry in table order
\* whose every channel differs from it by at most 0.15, else unknown.
C4_ExactThenFirstWithinTolerance ==
    color_pc = "done" => annotation_type = ClaimedCategory(normalize_color(color))

\* The legend entries the code's comparison accepts for n.
AcceptedEntries(n) == {i \in 1..Len(COLOR_MAPPINGS) : AllClose(n, COLOR_MAPPINGS[i][1])}

\* C10: for every two-decimal RGB colour, all legend entries within the 0.15
\* tolerance of it carry one category, so the result of map_color_to_type is the
\* category of any accepted entry whatever the table order, and the exact-match
\* branch returns what the fuzzy scan alone returns.
C10_FuzzyMatchUnambiguous ==
    (color_pc = "done" /\ Len(color) = 3) =>
        /\ \A i, j \in NearEntries(color) : COLOR_MAPPINGS[i][2] = COLOR_MAPPINGS[j][2]
        /\ \A i \in AcceptedEntries(color) : annotation_type = COLOR_MAPPINGS[i][2]
        /\ AcceptedEntries(color) = {} => annotation_type = "None"
        /\ annotation_type = FuzzyFrom(COLOR_MAPPINGS, color, 1)

\* C10 witness: a colour that equals no legend entry and is within tolerance of
\* several, classified FYI.
C10_Witness ==
    /\ color_pc = "done"
    /\ Len(color) = 3
    /\ EqualEntries(color) = {}
    /\ Cardinality(AcceptedEntries(color)) >= 2
    /\ annotation_type = "FYI"

\* ---- the scan

\* The records of the list whose page is p.
RecordsOf(p, hs) ==
    LET Test(h) == h.page = p
    IN  SelectSeq(hs, Test)

\* The page-level handler has logged a failure on page p.
PageFailed(p, l) == \E i \in 1..Len(l) : l[i] = <<"page", p>>

\* Any failure was logged while page p was scanned.
FailureOnPage(p, l) == \E i \in 1..Len(l) : l[i] = <<"page", p>> \/ l[i] = <<"rect", p>>

\* C3: every record of the output list has a non-empty text that itself passes
\* the quality filter, and an annotation whose resolved text is empty or fails
\* the filter produces no record.
C3_RecordsPassQualityFilter ==
    /\ [](\A i \in 1..Len(all_highlights) :
             /\ all_highlights[i].text # <<>>
             /\ is_quality_text(all_highlights[i].text))
    /\ [][(pc = "body" /\ (clip_text' = <<>> \/ ~is_quality_text(clip_text')))
             => all_highlights' = all_highlights]_vars

\* C3 witness: a record whose resolved text had a run of spaces (an empty middle
\* fragment) collapsed, beside an annotation dropped by the filter.
C3_Witness ==
    /\ Len(all_highlights) = 1
    /\ pc = "annots"
    /\ annots_seen = 2
    /\ clip_text = T_pi
    /\ all_highlights[1].text = T_42 \o <<" ">> \o T_ab

\* C5: if opening the document fails, extract_pdf_highlights returns the empty
\* sequence and raises nothing; no page is scanned and no handle is left open.
C5_OpenFailureReturnsEmpty ==
    (pc = "done" /\ doc = "none") =>
        /\ outcome = "returned"
        /\ result = <<>>
        /\ pages_loaded = 0
        /\ close_count = 0

\* C5 witness: the call has ended after a failed open.
C5_Witness ==
    /\ pc = "done"
    /\ doc = "none"
    /\ log = << <<"open", 0>> >>

\* C6: once the document is open, the handle is closed when the call ends, on
\* every exit path, exactly once, and not before the call ends.
C6_HandleClosedOnEveryExit ==
    /\ (pc = "done" /\ doc # "none") => (doc = "closed" /\ close_count = 1)
    /\ pc # "done" => (doc # "closed" /\ close_count = 0)

\* C6 witness: the call ended by an exception after scanning a page, the handle
\* closed.
C6_Witness ==
    /\ pc = "done"
    /\ outcome = "raised"
    /\ pages_loaded >= 1
    /\ doc = "closed"

\* C7 (as claimed): a page on which a failure occurred while its annotations
\* were scanned has no record in the output.
C7_FailedPageHasNoRecord ==
    \A p \in 1..MaxPages :
        FailureOnPage(p, log) => RecordsOf(p, all_highlights) = <<>>

\* C7 (amended): when a failure reaches the page-level handler on page p, no
\* record of p is added at or after the failure, the records already appended
\* stay, and the scan goes on with the next page.
C7_FailedPageRestSkipped ==
    [][\A p \in 1..MaxPages :
          PageFailed(p, log') =>
              /\ RecordsOf(p, all_highlights') = RecordsOf(p, all_highlights)
              /\ ~PageFailed(p, log) =>
                    /\ all_highlights' = all_highlights
                    /\ page_num' = p
                    /\ pc' = "loop"
                    /\ outcome' = "running"]_vars

\* C7 witness: page 1 failed after contributing a record, and page 2 contributed
\* a record after that.
C7_Witness ==
    /\ PageFailed(1, log)
    /\ RecordsOf(1, all_highlights) # <<>>
    /\ RecordsOf(2, all_highlights) # <<>>

\* C8 (as claimed): once the document is open no failure aborts the call: it
\* returns the records collected and raises nothing.
C8_NoFailureAbortsTheScan ==
    (pc = "done" /\ doc # "none") => (outcome = "returned" /\ result = all_highlights)

====
